---- MODULE Spec2Model ----
(***************************************************************************)
(* planet_overlap: temporal and spatial tiling, the search dispatch loop   *)
(* of the command line entry point, the quality filter and the pairwise    *)
(* overlap analysis.                                                       *)
(*                                                                         *)
(* Calendar dates are day numbers (validate_dates parses "%Y-%m-%d", so    *)
(* every datetime is a midnight and timedelta(days=k) adds k).             *)
(*                                                                         *)
(* Specifications:                                                         *)
(*   SpecDates    one call of tile_dates                                   *)
(*   SpecAoi      one call of tile_aoi                                     *)
(*   Spec         main, from the command line to the end of the dispatch   *)
(*                loop                                                     *)
(*   SpecFilter   one call of filter_quality                               *)
(*   SpecOverlap  one call of calculate_intersections                      *)
(***************************************************************************)
EXTENDS Integers, Sequences, FiniteSets, TLC

(* ------------------------------------------------------------------ *)
(* Thresholds (pagination.py)                                          *)
(* ------------------------------------------------------------------ *)
POLYGON_AREA_THRESHOLD_KM2 == 2500

DATE_RANGE_THRESHOLD_DAYS == 30

POINT_DATE_THRESHOLD_DAYS == 3 * 365

(* ------------------------------------------------------------------ *)
(* Bounds of the model                                                 *)
(* ------------------------------------------------------------------ *)
\* the first day of a range is drawn from 0..MaxStart
MaxStart == 1

\* the inclusive span of a range is drawn from 1..MaxSpan
MaxSpan == 2300

Min(a, b) == IF a <= b THEN a ELSE b

\* sub-cells per degree: a geometry is a set of sub-cells <<x, y>>, the
\* square [x, x+1] x [y, y+1] in units of 1/Res degree
Res == 3

\* a polygon's corner is drawn from 0..MaxOff in both axes
MaxOff == 1

\* a polygon's bounding box is 1..MaxW sub-cells wide and high
MaxW == 7

\* calculate_intersections is given at most MaxPolygons scenes
MaxPolygons == 3

\* filter_quality is given at most MaxScenes scenes
MaxScenes == 3

\* an AOI file holds at most MaxAois geometries
MaxAois == 2

\* the provider returns at most MaxFetched features over a whole run
MaxFetched == 3

\* fetch_with_retry: the largest retries argument, and the number of calls
MaxRetries == 3

MaxCalls == 3

\* build_filters: the largest number of date ranges
MaxRanges == 2

\* load_aoi: the largest number of paths
MaxPaths == 2

\* the tiling decisions are taken on estimates up to MaxDelta off a threshold
MaxDelta == 2

VARIABLES
    \* tile_dates: its arguments, its return value, and whether it has returned
    start, end, is_point, slices, td_pc,
    \* tile_aoi: its argument, its return value, and whether it has returned
    geom, tiles, ta_pc,
    \* main: the command line and environment, the position in main, its locals
    args, pc, start_date, end_date, aois, all_tiles, date_ranges, i, j,
    all_properties, all_geometries, all_ids,
    \* the search call awaiting its response, and the history of the run: the
    \* calls issued, the number of them that have returned, the features the
    \* provider returned, in order, and how many of them the last call returned
    in_flight, calls, returned, fetched, last_count,
    \* the table main writes to results.geojson, and whether some search call
    \* of the run has failed
    results, search_failed,
    \* filter_quality: its arguments, the three lists it returns, and whether it
    \* has returned
    properties, geometries, ids, min_points, min_view_angle,
    f_props, f_geoms, f_ids, fq_pc,
    \* calculate_intersections: its arguments, the two matrices it returns, and
    \* whether it has returned
    polygons, merged_properties, area_2d, sun_diff_2d, ci_pc,
    \* process_tiles: its arguments, what it returns or raises, and whether it
    \* has returned
    pt_args, gdf, pt_pc,
    \* fetch_with_retry: its argument retries, the loop variable, the position
    \* in the call, the number of requests sent and the delays slept in this
    \* call, the number of the call and the failed attempts of earlier calls
    retries, attempt, fr_pc, requests_sent, sleeps, call_no, earlier_failures,
    \* the tiling decisions: the estimates they are taken on, the decisions,
    \* and whether they have been taken
    dc_args, dc_result, dc_pc,
    \* load_aoi: its argument, what it returns or raises, and whether it has
    \* returned
    paths, la_result, la_pc,
    \* build_filters: its arguments, the filter it returns, and whether it has
    \* returned
    bf_args, combined_filter, bf_pc

datesVars == <<start, end, is_point, slices, td_pc>>

aoiVars == <<geom, tiles, ta_pc>>

mainVars == <<args, pc, start_date, end_date, aois, all_tiles, date_ranges, i, j,
              all_properties, all_geometries, all_ids, in_flight, calls, returned,
              fetched, last_count, results, search_failed>>

filterVars == <<properties, geometries, ids, min_points, min_view_angle,
                f_props, f_geoms, f_ids, fq_pc>>

overlapVars == <<polygons, merged_properties, area_2d, sun_diff_2d, ci_pc>>

processVars == <<pt_args, gdf, pt_pc>>

retryVars == <<retries, attempt, fr_pc, requests_sent, sleeps, call_no,
               earlier_failures>>

decideVars == <<dc_args, dc_result, dc_pc>>

loadVars == <<paths, la_result, la_pc>>

filtersVars == <<bf_args, combined_filter, bf_pc>>

\* the components added to the five above
auxVars == <<processVars, retryVars, decideVars, loadVars, filtersVars>>

vars == <<datesVars, aoiVars, mainVars, filterVars, overlapVars, auxVars>>

DatesIdle ==
    /\ start = 0
    /\ end = 0
    /\ is_point = FALSE
    /\ slices = << >>
    /\ td_pc = "idle"

AoiIdle ==
    /\ geom = [type |-> "Polygon", cells |-> {}]
    /\ tiles = << >>
    /\ ta_pc = "idle"

NoCall == [none |-> TRUE]

\* no table has been written
NoTable == [none |-> TRUE]

MainIdle ==
    /\ args = << >>
    /\ pc = "idle"
    /\ start_date = 0
    /\ end_date = 0
    /\ aois = << >>
    /\ all_tiles = << >>
    /\ date_ranges = << >>
    /\ i = 1
    /\ j = 1
    /\ all_properties = << >>
    /\ all_geometries = << >>
    /\ all_ids = << >>
    /\ in_flight = NoCall
    /\ calls = << >>
    /\ returned = 0
    /\ fetched = << >>
    /\ last_count = 0
    /\ results = NoTable
    /\ search_failed = FALSE

FilterIdle ==
    /\ properties = << >>
    /\ geometries = << >>
    /\ ids = << >>
    /\ min_points = 5
    /\ min_view_angle = 3
    /\ f_props = << >>
    /\ f_geoms = << >>
    /\ f_ids = << >>
    /\ fq_pc = "idle"

OverlapIdle ==
    /\ polygons = << >>
    /\ merged_properties = << >>
    /\ area_2d = << >>
    /\ sun_diff_2d = << >>
    /\ ci_pc = "idle"

ProcessIdle ==
    /\ pt_args = << >>
    /\ gdf = << >>
    /\ pt_pc = "idle"

RetryIdle ==
    /\ retries = 3
    /\ attempt = 0
    /\ fr_pc = "idle"
    /\ requests_sent = 0
    /\ sleeps = << >>
    /\ call_no = 0
    /\ earlier_failures = 0

DecideIdle ==
    /\ dc_args = << >>
    /\ dc_result = << >>
    /\ dc_pc = "idle"

LoadIdle ==
    /\ paths = << >>
    /\ la_result = << >>
    /\ la_pc = "idle"

FiltersIdle ==
    /\ bf_args = << >>
    /\ combined_filter = << >>
    /\ bf_pc = "idle"

AuxIdle == ProcessIdle /\ RetryIdle /\ DecideIdle /\ LoadIdle /\ FiltersIdle

\* the five components above, not called
CoreIdle == DatesIdle /\ AoiIdle /\ MainIdle /\ FilterIdle /\ OverlapIdle

coreVars == <<datesVars, aoiVars, mainVars, filterVars, overlapVars>>

(* ------------------------------------------------------------------ *)
(* tile_dates                                                          *)
(* ------------------------------------------------------------------ *)
\* the loop with a window that ends slice_length days after its first day
RECURSIVE TileDatesLoopLong(_, _, _, _)
TileDatesLoopLong(current_start, e, slice_length, acc) ==
    IF current_start <= e
    THEN LET current_end == Min(current_start + slice_length, e)
         IN  TileDatesLoopLong(current_end + 1, e, slice_length,
                               Append(acc, <<current_start, current_end>>))
    ELSE acc

\* the while loop of tile_dates: slices accumulated so far, current_start
RECURSIVE TileDatesLoop(_, _, _, _)
TileDatesLoop(current_start, e, slice_length, acc) ==
    IF current_start <= e
    THEN LET current_end == Min(current_start + (slice_length - 1), e)
         IN  TileDatesLoop(current_end + 1, e, slice_length,
                           Append(acc, <<current_start, current_end>>))
    ELSE acc

\* the threshold chosen without regard to is_point
threshold_days_any(p) == DATE_RANGE_THRESHOLD_DAYS

threshold_days(p) ==
    IF p THEN POINT_DATE_THRESHOLD_DAYS ELSE DATE_RANGE_THRESHOLD_DAYS

tile_dates(s, e, p) ==
    LET total_days == (e - s) + 1
    IN  IF total_days <= threshold_days(p)
        THEN << <<s, e>> >>
        ELSE TileDatesLoop(s, e, Min(threshold_days(p), total_days), << >>)

InitDates ==
    /\ AuxIdle
    /\ OverlapIdle
    /\ AoiIdle
    /\ MainIdle
    /\ FilterIdle
    /\ start \in 0..MaxStart
    /\ \E d \in 1..MaxSpan : end = start + d - 1
    /\ is_point \in BOOLEAN
    /\ slices = << >>
    /\ td_pc = "call"

TileDates ==
    /\ td_pc = "call"
    /\ slices' = tile_dates(start, end, is_point)
    /\ td_pc' = "returned"
    /\ UNCHANGED <<start, end, is_point>>
    /\ UNCHANGED <<aoiVars, mainVars, filterVars, overlapVars, auxVars>>

NextDates == TileDates

SpecDates == InitDates /\ [][NextDates]_vars

(* ------------------------------------------------------------------ *)
(* Geometry: shapely's Polygon, bounds, intersection, area, buffer      *)
(* ------------------------------------------------------------------ *)
\* Polygon([(x0,y0),(x1,y0),(x1,y1),(x0,y1)]): the sub-cells of the rectangle
Box(x0, y0, x1, y1) ==
    [type |-> "Polygon",
     cells |-> {c \in (x0..(x1 - 1)) \X (y0..(y1 - 1)) : TRUE}]

SetMin(S) == CHOOSE m \in S : \A n \in S : m <= n

SetMax(S) == CHOOSE m \in S : \A n \in S : m >= n

\* geom.bounds = (minx, miny, maxx, maxy) of a non-empty geometry
bounds(g) ==
    <<SetMin({c[1] : c \in g.cells}), SetMin({c[2] : c \in g.cells}),
      SetMax({c[1] : c \in g.cells}) + 1, SetMax({c[2] : c \in g.cells}) + 1>>

\* a.intersection(b); an intersection of zero area (empty, or only a shared
\* edge or corner) has no sub-cell
intersection(a, b) == [type |-> "Polygon", cells |-> a.cells \cap b.cells]

\* geom.area, in squared sub-cell units
area(g) == Cardinality(g.cells)

\* point.buffer(r), r of the order of 0.01 degree: a polygon inside the
\* sub-cell that holds the point
buffer(g) == [type |-> "Polygon", cells |-> g.cells]

(* ------------------------------------------------------------------ *)
(* tile_aoi                                                            *)
(* ------------------------------------------------------------------ *)
\* the grid cell itself, not intersected with the polygon
TileCellWhole(g, lon, lat, lon_max, lat_max) ==
    Box(lon, lat, Min(lon + Res, lon_max), Min(lat + Res, lat_max))

\* one grid cell of the bounding box, intersected with the polygon
TileCell(g, lon, lat, lon_max, lat_max) ==
    intersection(Box(lon, lat, Min(lon + Res, lon_max), Min(lat + Res, lat_max)), g)

\* the inner loop, while lon < lon_max
RECURSIVE TileAoiCols(_, _, _, _, _, _)
TileAoiCols(g, lon, lat, lon_max, lat_max, acc) ==
    IF lon < lon_max
    THEN TileAoiCols(g, lon + Res, lat, lon_max, lat_max,
                     Append(acc, TileCell(g, lon, lat, lon_max, lat_max)))
    ELSE acc

\* the outer loop, while lat < lat_max
RECURSIVE TileAoiRows(_, _, _, _, _, _)
TileAoiRows(g, lon_min, lat, lon_max, lat_max, acc) ==
    IF lat < lat_max
    THEN TileAoiRows(g, lon_min, lat + Res, lon_max, lat_max,
                     TileAoiCols(g, lon_min, lat, lon_max, lat_max, acc))
    ELSE acc

\* the comparison made strict: an estimate equal to the threshold is tiled
area_below_threshold(num, den) == num < POLYGON_AREA_THRESHOLD_KM2 * den

\* area_km2 <= POLYGON_AREA_THRESHOLD_KM2 for the estimate area_km2 = num / den
area_within_threshold(num, den) == num <= POLYGON_AREA_THRESHOLD_KM2 * den

\* area_km2 <= POLYGON_AREA_THRESHOLD_KM2, with the bounding box in sub-cells:
\* (w / Res) * (h / Res) * 111**2 <= 2500
AreaWithinThreshold(b) ==
    area_within_threshold((b[3] - b[1]) * (b[4] - b[2]) * (111 * 111), Res * Res)

tile_aoi(g) ==
    IF g.type = "Point"
    THEN <<buffer(g)>>
    ELSE LET b == bounds(g)
         IN  IF AreaWithinThreshold(b)
             THEN <<g>>
             ELSE TileAoiRows(g, b[1], b[2], b[3], b[4], << >>)

\* a rectangle of w x h sub-cells at (x0, y0) without the nw x nh sub-cells of
\* its top right corner: a rectangle (nw = nh = 0) or an L-shaped polygon
NotchedRect(x0, y0, w, h, nw, nh) ==
    [type |-> "Polygon",
     cells |-> Box(x0, y0, x0 + w, y0 + h).cells
                 \ Box(x0 + w - nw, y0 + h - nh, x0 + w, y0 + h).cells]

PointAt(x, y) == [type |-> "Point", cells |-> {<<x, y>>}]

InitAoi ==
    /\ AuxIdle
    /\ OverlapIdle
    /\ DatesIdle
    /\ MainIdle
    /\ FilterIdle
    /\ \E x0 \in 0..MaxOff, y0 \in 0..MaxOff :
          \/ geom = PointAt(x0, y0)
          \/ \E w \in 1..MaxW, h \in 1..MaxW :
                \E nw \in 0..(w - 1), nh \in 0..(h - 1) :
                   /\ (nw = 0) <=> (nh = 0)
                   /\ geom = NotchedRect(x0, y0, w, h, nw, nh)
    /\ tiles = << >>
    /\ ta_pc = "call"

TileAoi ==
    /\ ta_pc = "call"
    /\ tiles' = tile_aoi(geom)
    /\ ta_pc' = "returned"
    /\ UNCHANGED geom
    /\ UNCHANGED <<datesVars, mainVars, filterVars, overlapVars, auxVars>>

NextAoi == TileAoi

SpecAoi == InitAoi /\ [][NextAoi]_vars

(* ------------------------------------------------------------------ *)
(* Dates on the command line: strptime("%Y-%m-%d"), strftime            *)
(* ------------------------------------------------------------------ *)
\* a date string is <<year, month, day>> as written; day 0 is 2020-01-01
IsLeap(y) == (y % 4 = 0 /\ y % 100 # 0) \/ y % 400 = 0

DaysInMonth(y, m) ==
    IF m = 2 THEN (IF IsLeap(y) THEN 29 ELSE 28)
    ELSE IF m \in {4, 6, 9, 11} THEN 30 ELSE 31

RECURSIVE DaysBeforeMonth(_, _)
DaysBeforeMonth(y, m) ==
    IF m <= 1 THEN 0 ELSE DaysBeforeMonth(y, m - 1) + DaysInMonth(y, m - 1)

RECURSIVE DaysBeforeYear(_)
DaysBeforeYear(y) ==
    IF y <= 2020 THEN 0
    ELSE DaysBeforeYear(y - 1) + (IF IsLeap(y - 1) THEN 366 ELSE 365)

\* datetime.strptime(s, "%Y-%m-%d"): the day number, or a ValueError
strptime(s) ==
    IF s[2] \in 1..12 /\ s[3] \in 1..DaysInMonth(s[1], s[2])
    THEN [ok |-> TRUE,
          value |-> DaysBeforeYear(s[1]) + DaysBeforeMonth(s[1], s[2]) + (s[3] - 1)]
    ELSE [ok |-> FALSE]

\* d.strftime("%Y-%m-%dT%H:%M:%SZ") of a midnight: <<day, second of the day>>
strftime(d) == <<d, 0>>

\* the two dates parsed and returned in whatever order they come
validate_dates_unordered(sd, ed) ==
    LET s == strptime(sd)
        e == strptime(ed)
    IN  IF ~s.ok \/ ~e.ok THEN [ok |-> FALSE]
        ELSE [ok |-> TRUE, start |-> s.value, end |-> e.value]

\* validate_dates: (start, end), or sys.exit(1)
validate_dates(sd, ed) ==
    LET s == strptime(sd)
        e == strptime(ed)
    IN  IF ~s.ok \/ ~e.ok THEN [ok |-> FALSE]
        ELSE IF s.value > e.value THEN [ok |-> FALSE]
        ELSE [ok |-> TRUE, start |-> s.value, end |-> e.value]

(* ------------------------------------------------------------------ *)
(* Mappings with optional keys: dict.get                               *)
(* ------------------------------------------------------------------ *)
Get(d, k, default) == IF k \in DOMAIN d THEN d[k] ELSE default

SelectIdx(seq, idx) == [k \in 1..Len(idx) |-> seq[idx[k]]]

(* ------------------------------------------------------------------ *)
(* load_aoi, buffer_points                                             *)
(* ------------------------------------------------------------------ *)
\* load_aoi([path]): the file's Polygon and Point geometries, or an error
\* when the file does not exist or holds no such geometry
IsPoint(g) == g.type = "Point"

IsNotPoint(g) == ~IsPoint(g)

IsPolygonOrPoint(g) == g.type \in {"Polygon", "Point"}

\* the loop that passes over a file that does not exist
RECURSIVE LoadLoopSkipMissing(_, _, _)
LoadLoopSkipMissing(ps, k, acc) ==
    IF k > Len(ps)
    THEN IF Len(acc) = 0
         THEN [ok |-> FALSE, error |-> "ValueError", read |-> Len(ps)]
         ELSE [ok |-> TRUE, aois |-> acc, read |-> Len(ps)]
    ELSE IF ~ps[k].exists
    THEN LoadLoopSkipMissing(ps, k + 1, acc)
    ELSE LoadLoopSkipMissing(ps, k + 1,
                             acc \o SelectSeq(ps[k].geometries, IsPolygonOrPoint))

\* for path in paths: the geometries loaded so far, and the outcome; read is
\* the number of files read before the function returned or raised
RECURSIVE LoadLoop(_, _, _)
LoadLoop(ps, k, acc) ==
    IF k > Len(ps)
    THEN IF Len(acc) = 0
         THEN [ok |-> FALSE, error |-> "ValueError", read |-> Len(ps)]
         ELSE [ok |-> TRUE, aois |-> acc, read |-> Len(ps)]
    ELSE IF ~ps[k].exists
    THEN [ok |-> FALSE, error |-> "FileNotFoundError", read |-> k - 1]
    ELSE LoadLoop(ps, k + 1, acc \o SelectSeq(ps[k].geometries, IsPolygonOrPoint))

load_aoi(ps) == LoadLoop(ps, 1, << >>)

buffer_points(points) == [k \in 1..Len(points) |-> buffer(points[k])]

RECURSIVE tile_all(_)
\* for aoi in polygon_aois: all_tiles.extend(tile_aoi(aoi))
tile_all(polys) ==
    IF Len(polys) = 0 THEN << >>
    ELSE tile_aoi(Head(polys)) \o tile_all(Tail(polys))

(* ------------------------------------------------------------------ *)
(* search_planet_items                                                 *)
(* ------------------------------------------------------------------ *)
\* the AndFilter posted to the provider's quick-search
search_request(tile, s_date, e_date, max_cloud, min_sun_angle) ==
    [geometry |-> tile,
     gte |-> strftime(s_date),
     lte |-> strftime(e_date),
     cloud_cover_lte |-> max_cloud,
     sun_elevation_gte |-> min_sun_angle]

\* the three lists built from the features of a response
features_properties(features) ==
    [k \in 1..Len(features) |-> Get(features[k], "properties", << >>)]

features_geometries(features) ==
    [k \in 1..Len(features) |-> Get(features[k], "geometry", << >>)]

\* the ids listed from the last feature to the first
features_ids_reversed(features) ==
    [k \in 1..Len(features) |-> Get(features[Len(features) + 1 - k], "id", "")]

features_ids(features) ==
    [k \in 1..Len(features) |-> Get(features[k], "id", "")]

(* ------------------------------------------------------------------ *)
(* Scenes: the features of a provider response                         *)
(* ------------------------------------------------------------------ *)
\* the exterior ring of a rectangular footprint: five vertices, closed
RectRing(x0, y0, x1, y1) ==
    << <<x0, y0>>, <<x1, y0>>, <<x1, y1>>, <<x0, y1>>, <<x0, y0>> >>

\* the exterior ring of a triangular footprint: four vertices, closed
TriRing(x0, y0, x1, y1) ==
    << <<x0, y0>>, <<x1, y0>>, <<x1, y1>>, <<x0, y0>> >>

GeoJSON(ring) == [type |-> "Polygon", coordinates |-> <<ring>>]

SceneProps(gc, qc, va, instr, sat, sun) ==
    [ground_control |-> gc, quality_category |-> qc, view_angle |-> va,
     instrument |-> instr, satellite_id |-> sat, sun_elevation |-> sun,
     cloud_cover |-> 0, acquired |-> "2020-01-01T10:30:00Z"]

Without(d, k) == [x \in (DOMAIN d) \ {k} |-> d[x]]

Feature(id, props, ring) ==
    [id |-> id, properties |-> props, geometry |-> GeoJSON(ring)]

\* the scenes the provider may return to a search of main
FeatureCatalog ==
    { Feature("s1", SceneProps(TRUE, "standard", 1, "PS2", "1001", 40),
              RectRing(0, 0, 2, 2)),
      Feature("s3", SceneProps(TRUE, "test", 4, "PSB", "1003", 30),
              TriRing(0, 0, 2, 2)) }

SeqsUpTo(S, n) == UNION {[1..m -> S] : m \in 0..n}

(* ------------------------------------------------------------------ *)
(* main                                                                *)
(* ------------------------------------------------------------------ *)
AoiCatalog ==
    { PointAt(0, 0),
      NotchedRect(0, 0, 4, 1, 0, 0),
      NotchedRect(0, 0, 4, 4, 1, 1) }

\* the file named on the command line: absent, or a list of geometries
AoiFiles ==
    {[exists |-> FALSE]}
        \cup {[exists |-> TRUE, geometries |-> g] : g \in SeqsUpTo(AoiCatalog, MaxAois)}

StartDateStrings == { <<2020, 1, 1>>, <<2020, 2, 1>>, <<2020, 2, 30>> }

EndDateStrings ==
    { <<2020, 1, 1>>, <<2020, 1, 30>>, <<2020, 1, 31>>, <<2020, 3, 1>>,
      <<2020, 13, 1>> }

\* --max-cloud in hundredths: 0.5 and 1.5
MaxCloudValues == {50, 150}

Init ==
    /\ AuxIdle
    /\ OverlapIdle
    /\ DatesIdle
    /\ AoiIdle
    /\ FilterIdle
    /\ \E f \in AoiFiles, sd \in StartDateStrings, ed \in EndDateStrings,
          mc \in MaxCloudValues, key \in BOOLEAN :
          args = [aoi_file |-> f, start_date |-> sd, end_date |-> ed,
                  max_cloud |-> mc, min_sun_angle |-> 0, api_key |-> key]
    /\ pc = "validate_dates"
    /\ start_date = 0
    /\ end_date = 0
    /\ aois = << >>
    /\ all_tiles = << >>
    /\ date_ranges = << >>
    /\ i = 1
    /\ j = 1
    /\ all_properties = << >>
    /\ all_geometries = << >>
    /\ all_ids = << >>
    /\ in_flight = NoCall
    /\ calls = << >>
    /\ returned = 0
    /\ fetched = << >>
    /\ last_count = 0
    /\ results = NoTable
    /\ search_failed = FALSE

\* start_date, end_date = validate_dates(args.start_date, args.end_date)
ValidateDates ==
    /\ pc = "validate_dates"
    /\ LET r == validate_dates(args.start_date, args.end_date)
       IN  IF r.ok
           THEN /\ start_date' = r.start
                /\ end_date' = r.end
                /\ pc' = "load_aoi"
           ELSE /\ pc' = "exit1"
                /\ UNCHANGED <<start_date, end_date>>
    /\ UNCHANGED <<args, aois, all_tiles, date_ranges, i, j, all_properties,
                   all_geometries, all_ids, in_flight, calls, returned, fetched,
                   last_count, results, search_failed>>
    /\ UNCHANGED <<datesVars, aoiVars, filterVars, overlapVars, auxVars>>

\* aois = load_aoi([args.aoi_file]), sys.exit(1) on any exception
LoadAoi ==
    /\ pc = "load_aoi"
    /\ LET r == load_aoi(<<args.aoi_file>>)
       IN  IF r.ok
           THEN /\ aois' = r.aois
                /\ pc' = "tile"
           ELSE /\ pc' = "exit1"
                /\ UNCHANGED aois
    /\ UNCHANGED <<args, start_date, end_date, all_tiles, date_ranges, i, j,
                   all_properties, all_geometries, all_ids, in_flight, calls,
                   returned, fetched, last_count, results, search_failed>>
    /\ UNCHANGED <<datesVars, aoiVars, filterVars, overlapVars, auxVars>>

\* the points are buffered and appended to the polygons, every polygon is
\* tiled, and the date range is tiled once for the run
Tile ==
    /\ pc = "tile"
    /\ LET point_aois == SelectSeq(aois, IsPoint)
           polygon_aois == SelectSeq(aois, IsNotPoint) \o buffer_points(point_aois)
       IN  /\ all_tiles' = tile_all(polygon_aois)
           /\ date_ranges' = tile_dates(start_date, end_date, Len(point_aois) > 0)
    /\ pc' = "create_session"
    /\ UNCHANGED <<args, start_date, end_date, aois, i, j, all_properties,
                   all_geometries, all_ids, in_flight, calls, returned, fetched,
                   last_count, results, search_failed>>
    /\ UNCHANGED <<datesVars, aoiVars, filterVars, overlapVars, auxVars>>

\* session = create_session(): a ValueError without PLANET_API_KEY
CreateSession ==
    /\ pc = "create_session"
    /\ pc' = IF args.api_key THEN "dispatch" ELSE "exit1"
    /\ UNCHANGED <<args, start_date, end_date, aois, all_tiles, date_ranges, i, j,
                   all_properties, all_geometries, all_ids, in_flight, calls,
                   returned, fetched, last_count, results, search_failed>>
    /\ UNCHANGED <<datesVars, aoiVars, filterVars, overlapVars, auxVars>>

\* one iteration of the nested loops begins: search_planet_items posts the
\* request for tile i and date range j
IssueSearch ==
    /\ pc = "dispatch"
    /\ in_flight = NoCall
    /\ i <= Len(all_tiles)
    /\ j <= Len(date_ranges)
    /\ in_flight' = search_request(all_tiles[i], date_ranges[j][1],
                                    date_ranges[j][2], args.max_cloud,
                                    args.min_sun_angle)
    /\ calls' = Append(calls, <<i, j>>)
    /\ UNCHANGED <<args, pc, start_date, end_date, aois, all_tiles, date_ranges,
                   i, j, all_properties, all_geometries, all_ids, returned,
                   fetched, last_count, results, search_failed>>
    /\ UNCHANGED <<datesVars, aoiVars, filterVars, overlapVars, auxVars>>

\* the loops advance without restarting the inner loop for the next tile
AdvanceNoRestart(features) ==
    /\ all_properties' = all_properties \o features_properties(features)
    /\ all_geometries' = all_geometries \o features_geometries(features)
    /\ all_ids' = all_ids \o features_ids(features)
    /\ in_flight' = NoCall
    /\ returned' = returned + 1
    /\ fetched' = fetched \o features
    /\ last_count' = Len(features)
    /\ IF j < Len(date_ranges)
       THEN /\ j' = j + 1
            /\ i' = i
       ELSE /\ j' = j
            /\ i' = i + 1

\* the iteration ends: the three lists search_planet_items returns are
\* appended and the loops advance
Advance(features) ==
    /\ all_properties' = all_properties \o features_properties(features)
    /\ all_geometries' = all_geometries \o features_geometries(features)
    /\ all_ids' = all_ids \o features_ids(features)
    /\ in_flight' = NoCall
    /\ returned' = returned + 1
    /\ fetched' = fetched \o features
    /\ last_count' = Len(features)
    /\ IF j < Len(date_ranges)
       THEN /\ j' = j + 1
            /\ i' = i
       ELSE /\ j' = 1
            /\ i' = i + 1

\* the provider answers with features
SearchReturns ==
    /\ pc = "dispatch"
    /\ in_flight # NoCall
    /\ \E features \in SeqsUpTo(FeatureCatalog, MaxFetched - Len(fetched)) :
          Advance(features)
    /\ UNCHANGED <<args, pc, start_date, end_date, aois, all_tiles, date_ranges,
                   calls, results, search_failed>>
    /\ UNCHANGED <<datesVars, aoiVars, filterVars, overlapVars, auxVars>>

\* the request raises (an HTTP error or any other exception): the error is
\* logged and search_planet_items returns three empty lists
SearchFails ==
    /\ pc = "dispatch"
    /\ in_flight # NoCall
    /\ Advance(<< >>)
    /\ search_failed' = TRUE
    /\ UNCHANGED <<args, pc, start_date, end_date, aois, all_tiles, date_ranges,
                   calls, results>>
    /\ UNCHANGED <<datesVars, aoiVars, filterVars, overlapVars, auxVars>>

\* both loops are exhausted
LoopDone ==
    /\ pc = "dispatch"
    /\ in_flight = NoCall
    /\ i > Len(all_tiles)
    /\ pc' = "fetched"
    /\ UNCHANGED <<args, start_date, end_date, aois, all_tiles, date_ranges, i, j,
                   all_properties, all_geometries, all_ids, in_flight, calls,
                   returned, fetched, last_count, results, search_failed>>
    /\ UNCHANGED <<datesVars, aoiVars, filterVars, overlapVars, auxVars>>

(* ------------------------------------------------------------------ *)
(* filter_quality                                                      *)
(* ------------------------------------------------------------------ *)
\* the condition of the list comprehension for index k; Python's `and`
\* evaluates left to right and stops at the first false operand
Keeps(props, geoms, k, mp, mva) ==
    /\ Get(props[k], "ground_control", FALSE)
    /\ Get(props[k], "quality_category", "") = "standard"
    /\ Get(props[k], "view_angle", 0) < mva
    /\ Len(geoms[k].coordinates[1]) >= mp

\* index_sub: the kept indices of props[1..n], in increasing order
RECURSIVE index_sub(_, _, _, _, _)
index_sub(props, geoms, n, mp, mva) ==
    IF n = 0 THEN << >>
    ELSE LET before == index_sub(props, geoms, n - 1, mp, mva)
         IN  IF Keeps(props, geoms, n, mp, mva) THEN Append(before, n) ELSE before

\* the ids taken from the front of the list, not at the kept indices
filter_quality_ids_front(props, geoms, idl, mp, mva) ==
    LET idx == index_sub(props, geoms, Len(props), mp, mva)
    IN  <<SelectIdx(props, idx), SelectIdx(geoms, idx), SubSeq(idl, 1, Len(idx))>>

filter_quality(props, geoms, idl, mp, mva) ==
    LET idx == index_sub(props, geoms, Len(props), mp, mva)
    IN  <<SelectIdx(props, idx), SelectIdx(geoms, idx), SelectIdx(idl, idx)>>

GoodProps == SceneProps(TRUE, "standard", 2, "PS2", "1001", 40)

\* property mappings that differ from a good scene's in one quality key
FilterProps ==
    { GoodProps,
      [GoodProps EXCEPT !.view_angle = 0],
      [GoodProps EXCEPT !.view_angle = 3],
      Without(GoodProps, "view_angle"),
      [GoodProps EXCEPT !.ground_control = FALSE],
      Without(GoodProps, "ground_control"),
      [GoodProps EXCEPT !.quality_category = "test"],
      Without(GoodProps, "quality_category") }

FilterGeoms == { GeoJSON(RectRing(0, 0, 2, 2)), GeoJSON(TriRing(0, 0, 2, 2)) }

SceneId(k) == "scene_" \o ToString(k)

InitFilter ==
    /\ AuxIdle
    /\ OverlapIdle
    /\ DatesIdle
    /\ AoiIdle
    /\ MainIdle
    /\ \E n \in 0..MaxScenes :
          /\ properties \in [1..n -> FilterProps]
          /\ geometries \in [1..n -> FilterGeoms]
          /\ ids = [k \in 1..n |-> SceneId(k)]
    /\ min_points \in {4, 5}
    /\ min_view_angle \in {0, 3}
    /\ f_props = << >>
    /\ f_geoms = << >>
    /\ f_ids = << >>
    /\ fq_pc = "call"

FilterQuality ==
    /\ fq_pc = "call"
    /\ LET r == filter_quality(properties, geometries, ids, min_points,
                               min_view_angle)
       IN  /\ f_props' = r[1]
           /\ f_geoms' = r[2]
           /\ f_ids' = r[3]
    /\ fq_pc' = "returned"
    /\ UNCHANGED <<properties, geometries, ids, min_points, min_view_angle>>
    /\ UNCHANGED <<datesVars, aoiVars, mainVars, overlapVars, auxVars>>

NextFilter == FilterQuality

SpecFilter == InitFilter /\ [][NextFilter]_vars

(* ------------------------------------------------------------------ *)
(* calculate_intersections                                             *)
(* ------------------------------------------------------------------ *)
\* the difference taken without abs()
AbsSigned(x) == x

Abs(x) == IF x < 0 THEN -x ELSE x

\* np.zeros((n, n))
Zeros(n) == [c \in (1..n) \X (1..n) |-> 0]

\* the pair is compared whatever its satellites
EligibleAnySatellite(p, q) == p.instrument = q.instrument

\* same instrument, different satellites
Eligible(p, q) ==
    /\ p.instrument = q.instrument
    /\ p.satellite_id # q.satellite_id

\* the test made on the lower corners of the two boxes
PreCheckMinCorner(pa, pb) ==
    /\ bounds(pa)[1] >= bounds(pb)[1]
    /\ bounds(pa)[2] >= bounds(pb)[2]

\* the bounding-box test made before the exact intersection
PreCheck(pa, pb) ==
    /\ bounds(pa)[3] >= bounds(pb)[1]
    /\ bounds(pa)[4] >= bounds(pb)[2]

\* the entries of an intersecting pair written at [a, b] only
ComparePairUpper(polys, props, a, b, mats) ==
    IF Eligible(props[a], props[b]) /\ PreCheck(polys[a], polys[b])
       /\ area(intersection(polys[a], polys[b])) > 0
    THEN [area_2d |-> [mats.area_2d EXCEPT
                          ![<<a, b>>] = area(intersection(polys[a], polys[b]))],
          sun_diff_2d |-> [mats.sun_diff_2d EXCEPT
                          ![<<a, b>>] = Abs((90 - props[a].sun_elevation)
                                            - (90 - props[b].sun_elevation))]]
    ELSE mats

\* the body of the inner loop for the pair (a, b), a < b
ComparePair(polys, props, a, b, mats) ==
    IF Eligible(props[a], props[b])
    THEN IF PreCheck(polys[a], polys[b])
         THEN LET inter == intersection(polys[a], polys[b])
                  sun_a == 90 - props[a].sun_elevation
                  sun_b == 90 - props[b].sun_elevation
              IN  IF area(inter) > 0
                  THEN LET a1 == [mats.area_2d EXCEPT ![<<a, b>>] = area(inter)]
                           a2 == [a1 EXCEPT ![<<b, a>>] = a1[<<a, b>>]]
                           s1 == [mats.sun_diff_2d EXCEPT
                                     ![<<a, b>>] = Abs(sun_a - sun_b)]
                           s2 == [s1 EXCEPT ![<<b, a>>] = s1[<<a, b>>]]
                       IN  [area_2d |-> a2, sun_diff_2d |-> s2]
                  ELSE mats
         ELSE mats
    ELSE mats

\* for a in range(n): for b in range(a + 1, n)
RECURSIVE PairLoop(_, _, _, _, _)
PairLoop(polys, props, a, b, mats) ==
    IF a > Len(polys) THEN mats
    ELSE IF b > Len(polys) THEN PairLoop(polys, props, a + 1, a + 2, mats)
    ELSE PairLoop(polys, props, a, b + 1, ComparePair(polys, props, a, b, mats))

calculate_intersections(polys, props) ==
    PairLoop(polys, props, 1, 2,
             [area_2d |-> Zeros(Len(polys)), sun_diff_2d |-> Zeros(Len(polys))])

\* footprints: two that overlap, and one that meets the second at a corner
\* only and lies apart from the first
OverlapPolygons == { Box(0, 0, 2, 2), Box(1, 1, 3, 3), Box(3, 0, 4, 1) }

OverlapProps ==
    { SceneProps(TRUE, "standard", 2, instr, sat, sun) :
        instr \in {"PS2", "PSB"}, sat \in {"1001", "1002"}, sun \in {40, 55} }

InitOverlap ==
    /\ AuxIdle
    /\ DatesIdle
    /\ AoiIdle
    /\ MainIdle
    /\ FilterIdle
    /\ \E n \in 0..MaxPolygons :
          /\ polygons \in [1..n -> OverlapPolygons]
          /\ merged_properties \in [1..n -> OverlapProps]
    /\ area_2d = << >>
    /\ sun_diff_2d = << >>
    /\ ci_pc = "call"

CalculateIntersections ==
    /\ ci_pc = "call"
    /\ LET r == calculate_intersections(polygons, merged_properties)
       IN  /\ area_2d' = r.area_2d
           /\ sun_diff_2d' = r.sun_diff_2d
    /\ ci_pc' = "returned"
    /\ UNCHANGED <<polygons, merged_properties>>
    /\ UNCHANGED <<datesVars, aoiVars, mainVars, filterVars, auxVars>>

NextOverlap == CalculateIntersections

SpecOverlap == InitOverlap /\ [][NextOverlap]_vars

(* ------------------------------------------------------------------ *)
(* process_tiles                                                       *)
(* ------------------------------------------------------------------ *)
\* twice the signed area test of the even-odd rule: does the edge p -> q of a
\* ring cross the horizontal ray that leaves (cx / 2, cy / 2) to the right
Crosses(p, q, cx, cy) ==
    LET px == 2 * p[1]
        py == 2 * p[2]
        qx == 2 * q[1]
        qy == 2 * q[2]
    IN  /\ (py > cy) # (qy > cy)
        /\ IF qy > py
           THEN (cx - px) * (qy - py) < (cy - py) * (qx - px)
           ELSE (cx - px) * (qy - py) > (cy - py) * (qx - px)

\* Polygon(ring): the sub-cells whose centre lies inside the ring
Polygon(ring) ==
    LET xs == {ring[k][1] : k \in 1..Len(ring)}
        ys == {ring[k][2] : k \in 1..Len(ring)}
        inside(c) ==
            Cardinality({k \in 1..(Len(ring) - 1) :
                            Crosses(ring[k], ring[k + 1], 2 * c[1] + 1, 2 * c[2] + 1)})
                % 2 = 1
    IN  [type |-> "Polygon",
         cells |-> {c \in (SetMin(xs)..SetMax(xs)) \X (SetMin(ys)..SetMax(ys)) :
                       inside(c)}]

geometries_to_polygons(geoms) ==
    [k \in 1..Len(geoms) |-> Polygon(geoms[k].coordinates[1])]

RECURSIVE SumCoord(_, _, _)
SumCoord(ring, axis, n) ==
    IF n = 0 THEN 0 ELSE SumCoord(ring, axis, n - 1) + ring[n][axis]

\* np.mean of one coordinate over the vertices of the first ring, kept as the
\* fraction <<sum, count>>
compute_central_coordinates(geoms) ==
    [central_lon |-> [k \in 1..Len(geoms) |->
                         <<SumCoord(geoms[k].coordinates[1], 1,
                                    Len(geoms[k].coordinates[1])),
                           Len(geoms[k].coordinates[1])>>],
     central_lat |-> [k \in 1..Len(geoms) |->
                         <<SumCoord(geoms[k].coordinates[1], 2,
                                    Len(geoms[k].coordinates[1])),
                           Len(geoms[k].coordinates[1])>>]]

\* utc_times + central_lon / 15, kept as its two terms
compute_local_times(props, central_lon) ==
    [k \in 1..Len(props) |-> [utc |-> props[k].acquired, lon |-> central_lon[k]]]

\* the keys read with p[...] by compute_local_times, calculate_intersections
\* and the table: a scene without one of them raises KeyError
RequiredKeys ==
    {"acquired", "sun_elevation", "instrument", "satellite_id", "view_angle",
     "cloud_cover"}

\* the keys of the dictionary the table is built from, in order
FrameKeys ==
    <<"id", "name", "geometry", "view_angle", "acquired", "cloud_cover",
      "sun_elevation", "sun_angle", "satellite_id", "central_lon", "central_lat",
      "local_times", "max_sun_diff">>

\* the index set without taking the column out of the table
set_index_keep(columns, key) == columns

\* gdf.set_index(key): the column becomes the index
set_index(columns, key) == SelectSeq(columns, LAMBDA c : c # key)

\* the columns of the table main writes when nothing was fetched
EmptyColumns ==
    <<"name", "geometry", "view_angle", "acquired", "cloud_cover",
      "sun_elevation", "sun_angle", "satellite_id", "central_lon", "central_lat",
      "local_times", "max_sun_diff">>

EmptyTable == [columns |-> EmptyColumns, rows |-> << >>]

\* the maximum of row r taken over the columns right of the diagonal only
RowMaxUpper(mat, r, n) == SetMax({mat[<<r, c>>] : c \in r..n})

\* sun_diff_2d[r, :].max()
RowMax(mat, r, n) == SetMax({mat[<<r, c>>] : c \in 1..n})

\* Step 1: filter every tile's lists and extend the merged lists; zip stops
\* at the shortest of the three outer lists
RECURSIVE MergeTiles(_, _, _, _, _, _)
MergeTiles(all_p, all_g, all_i, k, mva, acc) ==
    IF k > Min(Len(all_p), Min(Len(all_g), Len(all_i))) THEN acc
    ELSE LET f == filter_quality(all_p[k], all_g[k], all_i[k], 5, mva)
         IN  MergeTiles(all_p, all_g, all_i, k + 1, mva,
                        <<acc[1] \o f[1], acc[2] \o f[2], acc[3] \o f[3]>>)

process_tiles(all_p, all_g, all_i, mva) ==
    LET merged == MergeTiles(all_p, all_g, all_i, 1, mva, << << >>, << >>, << >> >>)
        m_props == merged[1]
        m_geoms == merged[2]
        m_ids == merged[3]
        n == Len(m_ids)
    IN  IF \E k \in 1..n : ~(RequiredKeys \subseteq DOMAIN m_props[k])
        THEN [ok |-> FALSE, error |-> "KeyError"]
        ELSE LET central == compute_central_coordinates(m_geoms)
                 local_times == compute_local_times(m_props, central.central_lon)
                 polys == geometries_to_polygons(m_geoms)
                 mats == calculate_intersections(polys, m_props)
             IN  [ok |-> TRUE,
                  columns |-> set_index(FrameKeys, "id"),
                  rows |->
                    [k \in 1..n |->
                       [id |-> k - 1,
                        name |-> m_ids[k],
                        geometry |-> polys[k],
                        view_angle |-> m_props[k].view_angle,
                        acquired |-> m_props[k].acquired,
                        cloud_cover |-> m_props[k].cloud_cover,
                        sun_elevation |-> m_props[k].sun_elevation,
                        sun_angle |-> 90 - m_props[k].sun_elevation,
                        satellite_id |-> m_props[k].satellite_id,
                        central_lon |-> central.central_lon[k],
                        central_lat |-> central.central_lat[k],
                        local_times |-> local_times[k],
                        max_sun_diff |-> RowMax(mats.sun_diff_2d, k, n)]]]

\* the scenes of the lists handed to process_tiles: <<properties, geometry>>
ProcessScenes ==
    { <<SceneProps(TRUE, "standard", 1, "PS2", "1001", 40),
        GeoJSON(RectRing(0, 0, 2, 2))>>,
      <<SceneProps(TRUE, "standard", 2, "PS2", "1002", 55),
        GeoJSON(RectRing(1, 1, 3, 3))>>,
      <<SceneProps(TRUE, "standard", 2, "PS2", "1002", 30),
        GeoJSON(RectRing(3, 0, 4, 1))>>,
      <<SceneProps(TRUE, "standard", 0, "PSB", "1003", 55),
        GeoJSON(RectRing(0, 0, 2, 2))>>,
      <<SceneProps(TRUE, "test", 1, "PS2", "1002", 55),
        GeoJSON(RectRing(0, 0, 2, 2))>>,
      <<SceneProps(TRUE, "standard", 1, "PS2", "1002", 55),
        GeoJSON(TriRing(0, 0, 2, 2))>>,
      <<Without(SceneProps(TRUE, "standard", 1, "PS2", "1002", 55), "view_angle"),
        GeoJSON(RectRing(0, 0, 2, 2))>> }

\* the scenes first..last of a flat list, as the lists of one tile
TileLists(flat, first, last) ==
    [all_properties |-> [k \in 1..(last - first + 1) |-> flat[first + k - 1][1]],
     all_geometries |-> [k \in 1..(last - first + 1) |-> flat[first + k - 1][2]],
     all_ids |-> [k \in 1..(last - first + 1) |-> SceneId(first + k - 1)]]

\* the arguments of process_tiles: the scenes of flat in no list at all, in
\* one list, or in two lists cut after the scene at position cut
ProcessArgs(flat, shape, cut, mva) ==
    LET one == TileLists(flat, 1, Len(flat))
        left == TileLists(flat, 1, cut)
        right == TileLists(flat, cut + 1, Len(flat))
    IN  [all_properties |->
            IF shape = 0 THEN << >>
            ELSE IF shape = 1 THEN <<one.all_properties>>
            ELSE <<left.all_properties, right.all_properties>>,
         all_geometries |->
            IF shape = 0 THEN << >>
            ELSE IF shape = 1 THEN <<one.all_geometries>>
            ELSE <<left.all_geometries, right.all_geometries>>,
         all_ids |->
            IF shape = 0 THEN << >>
            ELSE IF shape = 1 THEN <<one.all_ids>>
            ELSE <<left.all_ids, right.all_ids>>,
         min_view_angle |-> mva]

InitProcess ==
    /\ CoreIdle
    /\ FiltersIdle
    /\ LoadIdle
    /\ DecideIdle
    /\ RetryIdle
    /\ \E n \in 0..MaxScenes :
          \E flat \in [1..n -> ProcessScenes], shape \in 0..2, cut \in 0..n,
             mva \in {1, 3} :
             /\ (shape = 0) => (n = 0)
             /\ (shape # 2) => (cut = 0)
             /\ pt_args = ProcessArgs(flat, shape, cut, mva)
    /\ gdf = << >>
    /\ pt_pc = "call"

ProcessTiles ==
    /\ pt_pc = "call"
    /\ gdf' = process_tiles(pt_args.all_properties, pt_args.all_geometries,
                            pt_args.all_ids, pt_args.min_view_angle)
    /\ pt_pc' = "returned"
    /\ UNCHANGED pt_args
    /\ UNCHANGED <<coreVars, retryVars, decideVars, loadVars, filtersVars>>

NextProcess == ProcessTiles

SpecProcess == InitProcess /\ [][NextProcess]_vars

(* ------------------------------------------------------------------ *)
(* main, after the dispatch loop                                       *)
(* ------------------------------------------------------------------ *)
\* nothing was fetched: an empty table is written and main returns
SaveEmpty ==
    /\ pc = "fetched"
    /\ all_properties = << >>
    /\ results' = EmptyTable
    /\ pc' = "done"
    /\ UNCHANGED <<args, start_date, end_date, aois, all_tiles, date_ranges, i, j,
                   all_properties, all_geometries, all_ids, in_flight, calls,
                   returned, fetched, last_count, search_failed>>
    /\ UNCHANGED <<datesVars, aoiVars, filterVars, overlapVars, auxVars>>

\* gdf = process_tiles([all_properties], [all_geometries], [all_ids],
\* min_view_angle=3, ...) is written to results.geojson and main returns; an
\* exception of process_tiles is not caught
SaveResults ==
    /\ pc = "fetched"
    /\ all_properties # << >>
    /\ LET r == process_tiles(<<all_properties>>, <<all_geometries>>, <<all_ids>>, 3)
       IN  IF r.ok
           THEN /\ results' = [columns |-> r.columns, rows |-> r.rows]
                /\ pc' = "done"
           ELSE /\ pc' = "crash"
                /\ UNCHANGED results
    /\ UNCHANGED <<args, start_date, end_date, aois, all_tiles, date_ranges, i, j,
                   all_properties, all_geometries, all_ids, in_flight, calls,
                   returned, fetched, last_count, search_failed>>
    /\ UNCHANGED <<datesVars, aoiVars, filterVars, overlapVars, auxVars>>

Next ==
    \/ ValidateDates
    \/ LoadAoi
    \/ Tile
    \/ CreateSession
    \/ IssueSearch
    \/ SearchReturns
    \/ SearchFails
    \/ LoopDone
    \/ SaveEmpty
    \/ SaveResults

Spec == Init /\ [][Next]_vars

(* ------------------------------------------------------------------ *)
(* fetch_with_retry                                                    *)
(* ------------------------------------------------------------------ *)
RECURSIVE Pow2(_)
Pow2(n) == IF n = 0 THEN 1 ELSE 2 * Pow2(n - 1)

\* the same delay after every failed attempt
DelayFixed(n) == 2

\* time.sleep(2 ** attempt)
Delay(n) == Pow2(n)

InitRetry ==
    /\ CoreIdle
    /\ FiltersIdle
    /\ LoadIdle
    /\ DecideIdle
    /\ ProcessIdle
    /\ retries \in 0..MaxRetries
    /\ attempt = 0
    /\ fr_pc = "call"
    /\ requests_sent = 0
    /\ sleeps = << >>
    /\ call_no = 1
    /\ earlier_failures = 0

\* for attempt in range(1, retries + 1): the first iteration begins, or the
\* range is empty and RuntimeError is raised at once
EnterLoop ==
    /\ fr_pc = "call"
    /\ IF retries >= 1
       THEN /\ attempt' = 1
            /\ fr_pc' = "get"
       ELSE /\ fr_pc' = "raised"
            /\ UNCHANGED attempt
    /\ UNCHANGED <<retries, requests_sent, sleeps, call_no, earlier_failures>>
    /\ UNCHANGED <<coreVars, processVars, decideVars, loadVars, filtersVars>>

\* session.get answers, raise_for_status passes: return r.json()
GetSucceeds ==
    /\ fr_pc = "get"
    /\ requests_sent' = requests_sent + 1
    /\ fr_pc' = "returned"
    /\ UNCHANGED <<retries, attempt, sleeps, call_no, earlier_failures>>
    /\ UNCHANGED <<coreVars, processVars, decideVars, loadVars, filtersVars>>

\* a requests.RequestException: it is logged, the call sleeps 2 ** attempt
\* seconds, and the loop goes on or, after the last attempt, RuntimeError is
\* raised
GetFails ==
    /\ fr_pc = "get"
    /\ requests_sent' = requests_sent + 1
    /\ sleeps' = Append(sleeps, Delay(attempt))
    /\ IF attempt < retries
       THEN /\ attempt' = attempt + 1
            /\ fr_pc' = "get"
       ELSE /\ fr_pc' = "raised"
            /\ UNCHANGED attempt
    /\ UNCHANGED <<retries, call_no, earlier_failures>>
    /\ UNCHANGED <<coreVars, processVars, decideVars, loadVars, filtersVars>>

\* an exception that is not a requests.RequestException leaves the function
GetRaisesOther ==
    /\ fr_pc = "get"
    /\ requests_sent' = requests_sent + 1
    /\ fr_pc' = "propagated"
    /\ UNCHANGED <<retries, attempt, sleeps, call_no, earlier_failures>>
    /\ UNCHANGED <<coreVars, processVars, decideVars, loadVars, filtersVars>>

\* the function is called again: its locals are fresh
CallAgain ==
    /\ fr_pc \in {"returned", "raised", "propagated"}
    /\ call_no < MaxCalls
    /\ call_no' = call_no + 1
    /\ earlier_failures' = earlier_failures + Len(sleeps)
    /\ retries' \in 0..MaxRetries
    /\ attempt' = 0
    /\ requests_sent' = 0
    /\ sleeps' = << >>
    /\ fr_pc' = "call"
    /\ UNCHANGED <<coreVars, processVars, decideVars, loadVars, filtersVars>>

NextRetry ==
    \/ EnterLoop
    \/ GetSucceeds
    \/ GetFails
    \/ GetRaisesOther
    \/ CallAgain

SpecRetry == InitRetry /\ [][NextRetry]_vars

(* ------------------------------------------------------------------ *)
(* The tiling decisions                                                *)
(* ------------------------------------------------------------------ *)
\* should_tile(estimate, threshold): tile when the estimate exceeds the
\* threshold
should_tile(estimate, threshold) == estimate > threshold

\* tile_aoi splits a polygon whose area estimate is area_km2
needs_spatial_tiling(area_km2) == ~area_within_threshold(area_km2, 1)

\* tile_dates returns more than the one range for a span of total_days
needs_temporal_tiling(total_days, p) == Len(tile_dates(0, total_days - 1, p)) > 1

Around(n) == (n - MaxDelta)..(n + MaxDelta)

InitDecide ==
    /\ CoreIdle
    /\ FiltersIdle
    /\ LoadIdle
    /\ ProcessIdle
    /\ RetryIdle
    /\ \E estimate \in {1500} \cup Around(2000) \cup {2500},
          area_a, area_b \in Around(POLYGON_AREA_THRESHOLD_KM2),
          p \in BOOLEAN :
          \E days_a, days_b \in Around(threshold_days(p)) :
             dc_args = [estimate |-> estimate, threshold |-> 2000,
                        area_a |-> area_a, area_b |-> area_b,
                        days_a |-> days_a, days_b |-> days_b, is_point |-> p]
    /\ dc_result = << >>
    /\ dc_pc = "call"

Decide ==
    /\ dc_pc = "call"
    /\ dc_result' =
          [should_tile |-> should_tile(dc_args.estimate, dc_args.threshold),
           spatial_a |-> needs_spatial_tiling(dc_args.area_a),
           spatial_b |-> needs_spatial_tiling(dc_args.area_b),
           temporal_a |-> needs_temporal_tiling(dc_args.days_a, dc_args.is_point),
           temporal_b |-> needs_temporal_tiling(dc_args.days_b, dc_args.is_point)]
    /\ dc_pc' = "returned"
    /\ UNCHANGED dc_args
    /\ UNCHANGED <<coreVars, processVars, retryVars, loadVars, filtersVars>>

NextDecide == Decide

SpecDecide == InitDecide /\ [][NextDecide]_vars

(* ------------------------------------------------------------------ *)
(* load_aoi on several paths                                           *)
(* ------------------------------------------------------------------ *)
\* the geometries a file may hold: a polygon, a point, and a line, which
\* load_aoi does not load
FileGeometries ==
    { NotchedRect(0, 0, 1, 1, 0, 0), PointAt(0, 0),
      [type |-> "LineString", cells |-> {}] }

\* a path: of no file, or of a file with its geometries (none when empty)
PathFiles ==
    {[exists |-> FALSE]}
        \cup {[exists |-> TRUE, geometries |-> g] :
                 g \in SeqsUpTo(FileGeometries, MaxAois)}

InitLoad ==
    /\ CoreIdle
    /\ FiltersIdle
    /\ ProcessIdle
    /\ RetryIdle
    /\ DecideIdle
    /\ paths \in SeqsUpTo(PathFiles, MaxPaths)
    /\ la_result = << >>
    /\ la_pc = "call"

LoadAoiPaths ==
    /\ la_pc = "call"
    /\ la_result' = load_aoi(paths)
    /\ la_pc' = "returned"
    /\ UNCHANGED paths
    /\ UNCHANGED <<coreVars, processVars, retryVars, decideVars, filtersVars>>

NextLoad == LoadAoiPaths

SpecLoad == InitLoad /\ [][NextLoad]_vars

(* ------------------------------------------------------------------ *)
(* build_filters                                                       *)
(* ------------------------------------------------------------------ *)
\* shapely's mapping(aoi): the GeoJSON dictionary of the polygon
mapping(aoi) == [type |-> aoi.type, coordinates |-> aoi.cells]

geometry_filter(aoi) ==
    [type |-> "GeometryFilter", field_name |-> "geometry", config |-> mapping(aoi)]

\* the two strftime formats: <<day, hour, minute, second, millisecond>>
date_range_filter(s, e) ==
    [type |-> "DateRangeFilter", field_name |-> "acquired",
     config |-> [gte |-> <<s, 0, 0, 0, 0>>, lte |-> <<e, 23, 59, 59, 999>>]]

cloud_cover_filter(max_cloud) ==
    [type |-> "RangeFilter", field_name |-> "cloud_cover",
     config |-> [lte |-> max_cloud]]

sun_angle_filter(min_sun_angle) ==
    [type |-> "RangeFilter", field_name |-> "sun_elevation",
     config |-> [gte |-> min_sun_angle]]

\* the filters wrapped in an OrFilter however many they are
or_filter_always(fs) == [type |-> "OrFilter", config |-> fs]

\* if len(...) == 1: the one filter, else: an OrFilter of all of them
or_filter(fs) ==
    IF Len(fs) = 1 THEN fs[1] ELSE [type |-> "OrFilter", config |-> fs]

build_filters(aoi_list, ranges, max_cloud, min_sun_angle) ==
    LET geom_filter ==
            or_filter([k \in 1..Len(aoi_list) |-> geometry_filter(aoi_list[k])])
        date_filter ==
            or_filter([k \in 1..Len(ranges) |->
                          date_range_filter(ranges[k][1], ranges[k][2])])
        quality_filters ==
            <<cloud_cover_filter(max_cloud), sun_angle_filter(min_sun_angle)>>
    IN  [type |-> "AndFilter",
         config |-> <<geom_filter, date_filter>> \o quality_filters]

FilterAois == { Box(0, 0, 1, 1), Box(1, 1, 2, 2) }

\* a single day, and two ranges of several days
FilterRanges == { <<0, 0>>, <<0, 14>>, <<31, 40>> }

InitFilters ==
    /\ CoreIdle
    /\ ProcessIdle
    /\ RetryIdle
    /\ DecideIdle
    /\ LoadIdle
    /\ \E a \in SeqsUpTo(FilterAois, MaxAois), d \in SeqsUpTo(FilterRanges, MaxRanges),
          mc \in MaxCloudValues :
          bf_args = [aois |-> a, date_ranges |-> d, max_cloud |-> mc,
                     min_sun_angle |-> 0]
    /\ combined_filter = << >>
    /\ bf_pc = "call"

BuildFilters ==
    /\ bf_pc = "call"
    /\ combined_filter' = build_filters(bf_args.aois, bf_args.date_ranges,
                                        bf_args.max_cloud, bf_args.min_sun_angle)
    /\ bf_pc' = "returned"
    /\ UNCHANGED bf_args
    /\ UNCHANGED <<coreVars, processVars, retryVars, decideVars, loadVars>>

NextFilters == BuildFilters

SpecFilters == InitFilters /\ [][NextFilters]_vars

(* ------------------------------------------------------------------ *)
(* Properties of tile_dates                                            *)
(* ------------------------------------------------------------------ *)
SliceDays(sl) == (sl[2] - sl[1]) + 1

TotalDays == (end - start) + 1

\* C1: the slices returned by tile_dates partition the inclusive range
\* [start, end]: the first begins at start, the last ends at end, each next
\* slice begins the day after the previous one ends, every slice has
\* slice_start <= slice_end and spans at most 30 days (polygon) or 1095 days
\* (point).
C1_Partition ==
    td_pc = "returned" =>
        /\ Len(slices) >= 1
        /\ slices[1][1] = start
        /\ slices[Len(slices)][2] = end
        /\ \A k \in 1..(Len(slices) - 1) : slices[k + 1][1] = slices[k][2] + 1
        /\ \A k \in 1..Len(slices) :
              /\ slices[k][1] <= slices[k][2]
              /\ SliceDays(slices[k]) <= (IF is_point THEN 1095 ELSE 30)

\* C1 witness: a point range split into three slices
C1_Witness ==
    /\ td_pc = "returned"
    /\ is_point
    /\ Len(slices) = 3

\* C2: tile_dates returns exactly ceil(D / T) slices, all of T days except
\* possibly the last; the single unchanged range when D <= T, more than one
\* slice when D > T, and slices of 30 and 15 days for a 45-day polygon range.
C2_SliceCount ==
    td_pc = "returned" =>
        LET T == IF is_point THEN 1095 ELSE 30
            D == TotalDays
        IN  /\ Len(slices) = (D + T - 1) \div T
            /\ \A k \in 1..(Len(slices) - 1) : SliceDays(slices[k]) = T
            /\ (D <= T) => slices = << <<start, end>> >>
            /\ (D > T) => Len(slices) > 1
            /\ (~is_point /\ D = 45) =>
                  /\ Len(slices) = 2
                  /\ SliceDays(slices[1]) = 30
                  /\ SliceDays(slices[2]) = 15

\* C2 witness: a point range of exactly 1095 days, returned unsplit
C2_Witness ==
    /\ td_pc = "returned"
    /\ is_point
    /\ TotalDays = 1095
    /\ slices = << <<start, end>> >>

(* ------------------------------------------------------------------ *)
(* Properties of tile_aoi                                              *)
(* ------------------------------------------------------------------ *)
TileIndices == 1..Len(tiles)

\* the w x h sub-cell rectangle at (x0, y0)
IsRect(g, x0, y0, w, h) == g.cells = (x0..(x0 + w - 1)) \X (y0..(y0 + h - 1))

\* C3: the tiles of a polygon P cover P exactly (union = P, each tile inside
\* P, no two tiles share interior); a bounding box estimated at no more than
\* 2500 km2 gives [P]; a 2 x 2 degree square gives 4 tiles, one per 1-degree
\* grid cell anchored at the minimum corner.
C3_TilesCover ==
    (ta_pc = "returned" /\ geom.type = "Polygon") =>
        LET b == bounds(geom)
        IN  /\ UNION {tiles[k].cells : k \in TileIndices} = geom.cells
            /\ \A k \in TileIndices : tiles[k].cells \subseteq geom.cells
            /\ \A k, l \in TileIndices :
                  k # l => tiles[k].cells \cap tiles[l].cells = {}
            /\ ((b[3] - b[1]) * (b[4] - b[2]) * 12321 <= 2500 * Res * Res)
                  => tiles = <<geom>>
            /\ IsRect(geom, b[1], b[2], 2 * Res, 2 * Res) =>
                  /\ Len(tiles) = 4
                  /\ \A cx, cy \in 0..1 :
                        \E k \in TileIndices :
                           IsRect(tiles[k], b[1] + cx * Res, b[2] + cy * Res, Res, Res)

\* C3 witness: an L-shaped polygon (a true notch) that was split into tiles
C3_Witness ==
    /\ ta_pc = "returned"
    /\ geom.type = "Polygon"
    /\ Len(tiles) > 1
    /\ LET b == bounds(geom)
       IN  Cardinality(geom.cells) < (b[3] - b[1]) * (b[4] - b[2])

\* C4: no tile returned by tile_aoi for a polygon is empty or has zero area.
C4_NoEmptyTile ==
    (ta_pc = "returned" /\ geom.type = "Polygon") =>
        \A k \in TileIndices : area(tiles[k]) > 0

(* ------------------------------------------------------------------ *)
(* Properties of the dispatch loop of main                             *)
(* ------------------------------------------------------------------ *)
\* C5: after every iteration of the dispatch loop all_properties,
\* all_geometries and all_ids have equal length and index k of each describes
\* the same scene; they are the concatenation, in dispatch order and without
\* deduplication, of what the calls returned.
C5_ParallelIndex ==
    /\ Len(all_properties) = Len(fetched)
    /\ Len(all_geometries) = Len(fetched)
    /\ Len(all_ids) = Len(fetched)
    /\ \A k \in 1..Len(fetched) :
          /\ all_properties[k] = fetched[k].properties
          /\ all_geometries[k] = fetched[k].geometry
          /\ all_ids[k] = fetched[k].id

\* C5 witness: with one date range (so every call is another tile), the last
\* call returned two different scenes, the first of which an earlier call
\* had returned already: it is listed twice
C5_Witness ==
    /\ pc = "dispatch"
    /\ Len(date_ranges) = 1
    /\ last_count = 2
    /\ Len(all_ids) = 3
    /\ all_ids[1] = all_ids[2]
    /\ all_ids[2] # all_ids[3]

\* the n-th pair of the cartesian product tiles x date ranges, tile-major
ExpectedCall(n) ==
    <<((n - 1) \div Len(date_ranges)) + 1, ((n - 1) % Len(date_ranges)) + 1>>

\* C6: main issues exactly one search call per (tile, date slice) pair, in
\* tile-major order, each only after the previous call has returned and its
\* result has been appended; after the loop every pair has been searched once.
C6_Dispatch ==
    pc \in {"dispatch", "fetched"} =>
        /\ Len(calls) <= Len(all_tiles) * Len(date_ranges)
        /\ \A n \in 1..Len(calls) : calls[n] = ExpectedCall(n)
        /\ IF in_flight = NoCall
           THEN returned = Len(calls)
           ELSE /\ returned = Len(calls) - 1
                /\ in_flight.geometry = all_tiles[calls[Len(calls)][1]]
                /\ in_flight.gte[1] = date_ranges[calls[Len(calls)][2]][1]
                /\ in_flight.lte[1] = date_ranges[calls[Len(calls)][2]][2]
        /\ pc = "fetched" =>
              /\ Len(calls) = Len(all_tiles) * Len(date_ranges)
              /\ returned = Len(calls)

\* C6 witness: a run over several tiles and several date slices has finished
\* its loop
C6_Witness ==
    /\ pc = "fetched"
    /\ Len(all_tiles) > 2
    /\ Len(date_ranges) > 2
    /\ Len(calls) = Len(all_tiles) * Len(date_ranges)

(* ------------------------------------------------------------------ *)
(* Properties of filter_quality                                        *)
(* ------------------------------------------------------------------ *)
Retained(k) == \E m \in 1..Len(f_ids) : f_ids[m] = ids[k]

\* C7: filter_quality retains record k if and only if its ground_control is
\* true, its quality_category is "standard", its view_angle is strictly less
\* than min_view_angle and its first ring has at least min_points vertices;
\* also for a record whose properties lack one of these keys.
C7_RetainedIff ==
    fq_pc = "returned" =>
        \A k \in 1..Len(properties) :
            Retained(k) <=>
                /\ "ground_control" \in DOMAIN properties[k]
                /\ properties[k].ground_control = TRUE
                /\ "quality_category" \in DOMAIN properties[k]
                /\ properties[k].quality_category = "standard"
                /\ "view_angle" \in DOMAIN properties[k]
                /\ properties[k].view_angle < min_view_angle
                /\ Len(geometries[k].coordinates[1]) >= min_points

\* the index of the input scene with the given id
IndexOfId(id) == CHOOSE m \in 1..Len(ids) : ids[m] = id

\* C8: the three lists filter_quality returns have equal length, are
\* subsequences of the inputs in the original order, and position k of each
\* comes from the same input index; the input lists are left unchanged.
C8_CoIndexed ==
    [][(fq_pc = "call" /\ fq_pc' = "returned") =>
          /\ Len(f_props') = Len(f_ids')
          /\ Len(f_geoms') = Len(f_ids')
          /\ \A k \in 1..Len(f_ids') :
                \E m \in 1..Len(ids) :
                   /\ f_ids'[k] = ids[m]
                   /\ f_props'[k] = properties[m]
                   /\ f_geoms'[k] = geometries[m]
          /\ \A k, l \in 1..Len(f_ids') :
                k < l => IndexOfId(f_ids'[k]) < IndexOfId(f_ids'[l])
          /\ properties' = properties
          /\ geometries' = geometries
          /\ ids' = ids]_vars

\* C8 witness: of three scenes the middle one was filtered out
C8_Witness ==
    /\ fq_pc = "returned"
    /\ Len(ids) = 3
    /\ f_ids = <<ids[1], ids[3]>>
    /\ properties[1] # properties[3]

(* ------------------------------------------------------------------ *)
(* Properties of calculate_intersections                               *)
(* ------------------------------------------------------------------ *)
SceneIndices == 1..Len(polygons)

\* C9: both matrices returned by calculate_intersections are symmetric and
\* have an all-zero diagonal, in whatever order the scenes are listed.
C9_Symmetric ==
    ci_pc = "returned" =>
        \A a, b \in SceneIndices :
            /\ area_2d[<<a, b>>] = area_2d[<<b, a>>]
            /\ sun_diff_2d[<<a, b>>] = sun_diff_2d[<<b, a>>]
            /\ area_2d[<<a, a>>] = 0
            /\ sun_diff_2d[<<a, a>>] = 0

\* C9 witness: three scenes, with entries recorded for the pair (1, 3)
C9_Witness ==
    /\ ci_pc = "returned"
    /\ Len(polygons) = 3
    /\ area_2d[<<3, 1>>] > 0
    /\ sun_diff_2d[<<3, 1>>] > 0
    /\ area_2d[<<1, 2>>] = 0

\* C10: an entry of either matrix is non-zero only for two scenes of equal
\* instrument and different satellite_id; every other pair has zero entries,
\* even when its two geometries are identical.
C10_OnlyEligible ==
    ci_pc = "returned" =>
        \A a, b \in SceneIndices :
            (area_2d[<<a, b>>] # 0 \/ sun_diff_2d[<<a, b>>] # 0) =>
                /\ merged_properties[a].instrument = merged_properties[b].instrument
                /\ merged_properties[a].satellite_id # merged_properties[b].satellite_id

\* C10 witness: two scenes of one satellite with the same footprint have zero
\* entries, next to a pair of different satellites that overlaps
C10_Witness ==
    /\ ci_pc = "returned"
    /\ Len(polygons) = 3
    /\ polygons[1] = polygons[2]
    /\ merged_properties[1].satellite_id = merged_properties[2].satellite_id
    /\ merged_properties[1].instrument = merged_properties[2].instrument
    /\ area_2d[<<1, 2>>] = 0
    /\ sun_diff_2d[<<1, 2>>] = 0
    /\ area_2d[<<1, 3>>] > 0

\* C11: for every eligible pair (equal instrument, different satellite_id)
\* whose polygons intersect with area > 0, area_2d holds the intersection
\* area and sun_diff_2d holds |(90 - sun_a) - (90 - sun_b)| = |sun_a - sun_b|
\* (exactly 15 for elevations 40 and 55); for an eligible pair whose
\* intersection has zero area both entries stay zero.
C11_Entries ==
    ci_pc = "returned" =>
        \A a, b \in SceneIndices :
            (/\ a # b
             /\ merged_properties[a].instrument = merged_properties[b].instrument
             /\ merged_properties[a].satellite_id # merged_properties[b].satellite_id)
            => LET common == polygons[a].cells \cap polygons[b].cells
                   sun_a == merged_properties[a].sun_elevation
                   sun_b == merged_properties[b].sun_elevation
                   diff == IF sun_a >= sun_b THEN sun_a - sun_b ELSE sun_b - sun_a
               IN  IF Cardinality(common) > 0
                   THEN /\ area_2d[<<a, b>>] = Cardinality(common)
                        /\ sun_diff_2d[<<a, b>>] = diff
                        /\ ({sun_a, sun_b} = {40, 55}) => sun_diff_2d[<<a, b>>] = 15
                   ELSE /\ area_2d[<<a, b>>] = 0
                        /\ sun_diff_2d[<<a, b>>] = 0

\* C11 witness: scenes 1 and 2 are eligible, overlap, and have elevations 40
\* and 55 (entry 15); scenes 2 and 3 are eligible with different elevations
\* and touch at a corner only (entries zero)
C11_Witness ==
    /\ ci_pc = "returned"
    /\ Len(polygons) = 3
    /\ merged_properties[1].sun_elevation = 40
    /\ merged_properties[2].sun_elevation = 55
    /\ merged_properties[3].sun_elevation = 40
    /\ Eligible(merged_properties[1], merged_properties[2])
    /\ Eligible(merged_properties[2], merged_properties[3])
    /\ polygons[1].cells \cap polygons[2].cells # {}
    /\ polygons[2].cells \cap polygons[3].cells = {}
    /\ PreCheck(polygons[2], polygons[3])
    /\ area_2d[<<1, 2>>] = 1
    /\ sun_diff_2d[<<1, 2>>] = 15
    /\ sun_diff_2d[<<2, 3>>] = 0

(* ------------------------------------------------------------------ *)
(* Properties of process_tiles                                         *)
(* ------------------------------------------------------------------ *)
RECURSIVE Concat(_, _)
Concat(lists, n) == IF n = 0 THEN << >> ELSE Concat(lists, n - 1) \o lists[n]

\* the scenes handed to process_tiles, tile after tile
GivenProps == Concat(pt_args.all_properties, Len(pt_args.all_properties))

GivenGeoms == Concat(pt_args.all_geometries, Len(pt_args.all_geometries))

GivenIds == Concat(pt_args.all_ids, Len(pt_args.all_ids))

\* the scenes filter_quality retains of them
RetainedScenes ==
    filter_quality(GivenProps, GivenGeoms, GivenIds, 5, pt_args.min_view_angle)

\* the sun-angle disagreement of retained scenes a and b: non-zero only for
\* an eligible pair whose footprints overlap
Disagreement(a, b) ==
    LET p == RetainedScenes[1][a]
        q == RetainedScenes[1][b]
    IN  IF /\ a # b
           /\ p.instrument = q.instrument
           /\ p.satellite_id # q.satellite_id
           /\ gdf.rows[a].geometry.cells \cap gdf.rows[b].geometry.cells # {}
        THEN IF p.sun_elevation >= q.sun_elevation
             THEN p.sun_elevation - q.sun_elevation
             ELSE q.sun_elevation - p.sun_elevation
        ELSE 0

\* C12: the table returned by process_tiles has exactly one row per scene
\* retained by filter_quality, in filtered order: row k carries the id, the
\* properties and the geometry of the k-th retained scene, sun_angle = 90 -
\* sun_elevation, and max_sun_diff is the maximum of row k of the
\* sun-difference matrix, 0 when scene k has no eligible overlapping partner.
C12_Rows ==
    (pt_pc = "returned" /\ gdf.ok) =>
        LET n == Len(RetainedScenes[3])
        IN  /\ Len(gdf.rows) = n
            /\ \A k \in 1..n :
                  LET row == gdf.rows[k]
                      p == RetainedScenes[1][k]
                      ring == RetainedScenes[2][k].coordinates[1]
                  IN  /\ row.id = k - 1
                      /\ row.name = RetainedScenes[3][k]
                      /\ row.view_angle = p.view_angle
                      /\ row.acquired = p.acquired
                      /\ row.cloud_cover = p.cloud_cover
                      /\ row.sun_elevation = p.sun_elevation
                      /\ row.satellite_id = p.satellite_id
                      /\ row.geometry.cells =
                            (ring[1][1]..(ring[3][1] - 1)) \X (ring[1][2]..(ring[3][2] - 1))
                      /\ row.sun_angle = 90 - p.sun_elevation
                      /\ \A m \in 1..n : row.max_sun_diff >= Disagreement(k, m)
                      /\ \E m \in 1..n : row.max_sun_diff = Disagreement(k, m)
                      /\ (\A m \in 1..n : Disagreement(k, m) = 0) => row.max_sun_diff = 0

\* C12 witness: three scenes given in two lists are all retained; the first
\* two disagree by 15 degrees, the third has no eligible overlapping partner
C12_Witness ==
    /\ pt_pc = "returned"
    /\ gdf.ok
    /\ Len(pt_args.all_ids) = 2
    /\ Len(pt_args.all_ids[1]) = 1
    /\ Len(gdf.rows) = 3
    /\ gdf.rows[1].max_sun_diff = 15
    /\ gdf.rows[2].max_sun_diff = 15
    /\ gdf.rows[3].max_sun_diff = 0
    /\ gdf.rows[3].name = SceneId(3)
    /\ gdf.rows[3].sun_angle = 60

(* ------------------------------------------------------------------ *)
(* Properties of the end of main                                       *)
(* ------------------------------------------------------------------ *)
\* the ids of the fetched scenes that pass the quality filter of the run
RetainedIds == filter_quality(all_properties, all_geometries, all_ids, 5, 3)[3]

\* C13: a run whose retained scene set is empty ends normally with an empty,
\* correctly-columned result table and no error, both when every search
\* returned nothing and when scenes were fetched but the quality filter
\* removed all of them; merging k empty results yields the empty table.
C13_EmptyResult ==
    (pc \in {"done", "crash"} /\ RetainedIds = << >>) =>
        /\ pc = "done"
        /\ results.rows = << >>
        /\ results.columns =
              <<"name", "geometry", "view_angle", "acquired", "cloud_cover",
                "sun_elevation", "sun_angle", "satellite_id", "central_lon",
                "central_lat", "local_times", "max_sun_diff">>

\* C13 witness: a run of several searches, the last of which returned
\* nothing, fetched scenes that the filter removed one and all, and ended
\* with the empty table
C13_Witness ==
    /\ pc = "done"
    /\ returned >= 2
    /\ last_count = 0
    /\ Len(fetched) >= 1
    /\ RetainedIds = << >>
    /\ results.rows = << >>

(* ------------------------------------------------------------------ *)
(* Properties of fetch_with_retry                                      *)
(* ------------------------------------------------------------------ *)
\* C14: fetch_with_retry makes at most `retries` attempts for one call; it
\* returns on the first successful attempt and makes no further attempt;
\* after the k-th failed attempt it waits, each wait twice the one before;
\* it raises the fatal error only after all `retries` attempts have failed;
\* the attempt counter is local, so the failures of earlier calls never
\* reduce the budget of this one.
C14_RetryBudget ==
    /\ requests_sent <= retries
    /\ fr_pc = "get" => (attempt = requests_sent + 1 /\ Len(sleeps) = requests_sent)
    /\ fr_pc = "returned" =>
          /\ Len(sleeps) = requests_sent - 1
          /\ ~ENABLED (GetSucceeds \/ GetFails \/ GetRaisesOther)
    /\ \A k \in 1..(Len(sleeps) - 1) : sleeps[k + 1] = 2 * sleeps[k]
    /\ fr_pc = "raised" =>
          /\ requests_sent = retries
          /\ Len(sleeps) = retries
    /\ (fr_pc = "get" /\ requests_sent < retries) =>
          ENABLED (GetSucceeds \/ GetFails)

\* C14 witness: after a first call that failed three times, a second call
\* with retries = 3 succeeded on its third attempt, having waited 2 s and 4 s
C14_Witness ==
    /\ call_no = 2
    /\ earlier_failures = 3
    /\ retries = 3
    /\ fr_pc = "returned"
    /\ requests_sent = 3
    /\ sleeps = <<2, 4>>

\* C15: when a search call fails with a network or HTTP error that is not
\* recovered, the run terminates with a non-zero status and a message; a run
\* in which a search call failed never completes successfully, that call's
\* result taken for an empty scene list.
C15_FailureIsFatal ==
    search_failed => pc \notin {"fetched", "done"}

\* a date string YYYY-MM-DD that names a day of the calendar
WellFormedDate(s) ==
    /\ s[2] \in 1..12
    /\ s[3] >= 1
    /\ s[3] <= (IF s[2] \in {4, 6, 9, 11} THEN 30
                ELSE IF s[2] # 2 THEN 31
                ELSE IF (s[1] % 4 = 0 /\ s[1] % 100 # 0) \/ s[1] % 400 = 0 THEN 29
                ELSE 28)

\* the day a is not after the day b
NotAfter(a, b) ==
    \/ a[1] < b[1]
    \/ a[1] = b[1] /\ a[2] < b[2]
    \/ a[1] = b[1] /\ a[2] = b[2] /\ a[3] <= b[3]

\* C16: validate_dates either returns (start, end) with start <= end or ends
\* the run with exit status 1: a malformed date string or a start date after
\* the end date aborts the run before any AOI is loaded or tiled and before
\* any search is dispatched, nothing happens after the exit, and a start date
\* equal to the end date is accepted.
C16_ValidDates ==
    [][/\ pc = "validate_dates" =>
             IF /\ WellFormedDate(args.start_date)
                /\ WellFormedDate(args.end_date)
                /\ NotAfter(args.start_date, args.end_date)
             THEN /\ pc' = "load_aoi"
                  /\ start_date' <= end_date'
                  /\ (args.start_date = args.end_date) => start_date' = end_date'
             ELSE /\ pc' = "exit1"
                  /\ aois' = << >>
                  /\ all_tiles' = << >>
                  /\ date_ranges' = << >>
                  /\ calls' = << >>
       /\ pc # "exit1"
       /\ pc' \in {"tile", "create_session", "dispatch", "fetched", "done"} =>
             start_date' <= end_date'
      ]_vars

\* C16 witness: a run whose start date equals its end date has passed
\* validate_dates and is dispatching its searches over the one-day range
C16_Witness ==
    /\ pc = "dispatch"
    /\ args.start_date = args.end_date
    /\ start_date = end_date
    /\ date_ranges = << <<start_date, end_date>> >>
    /\ Len(calls) >= 1

\* C17: a max_cloud value outside [0, 1] is rejected as a fatal input error:
\* no search filter is built and no search call is dispatched with a
\* cloud_cover bound outside [0, 1] (0..100 in hundredths).
C17_CloudRange ==
    /\ (in_flight # NoCall) => in_flight.cloud_cover_lte \in 0..100
    /\ (args.max_cloud \notin 0..100) => calls = << >>

MissingPaths == {k \in 1..Len(paths) : ~paths[k].exists}

\* the number of Polygon and Point geometries in the file of path k
Loadable(k) ==
    Cardinality({m \in 1..Len(paths[k].geometries) :
                    paths[k].geometries[m].type \in {"Polygon", "Point"}})

\* C19: load_aoi either returns a non-empty list of AOI geometries or fails:
\* it raises as soon as a referenced file does not exist (no later file is
\* read), it raises when no geometry was loaded from any file, and it never
\* returns an empty list.
C19_NonEmptyOrFails ==
    la_pc = "returned" =>
        /\ la_result.ok =>
              /\ Len(la_result.aois) >= 1
              /\ \A k \in 1..Len(la_result.aois) :
                    la_result.aois[k].type \in {"Polygon", "Point"}
        /\ (MissingPaths # {}) =>
              /\ ~la_result.ok
              /\ la_result.error = "FileNotFoundError"
              /\ \A k \in MissingPaths : la_result.read < k
        /\ (MissingPaths = {} /\ \A k \in 1..Len(paths) : Loadable(k) = 0) =>
              /\ ~la_result.ok
              /\ la_result.error = "ValueError"
        /\ (MissingPaths = {} /\ \E k \in 1..Len(paths) : Loadable(k) > 0) =>
              la_result.ok

\* C19 witness: the first path holds a polygon and the second names no file:
\* the call raised after reading one file
C19_Witness ==
    /\ la_pc = "returned"
    /\ Len(paths) = 2
    /\ paths[1].exists
    /\ Loadable(1) = 1
    /\ ~paths[2].exists
    /\ ~la_result.ok
    /\ la_result.read = 1

(* ------------------------------------------------------------------ *)
(* Properties of build_filters                                         *)
(* ------------------------------------------------------------------ *)
\* f is the GeometryFilter of the AOI a
IsGeometryFilterOf(f, a) ==
    /\ f.type = "GeometryFilter"
    /\ f.field_name = "geometry"
    /\ f.config.coordinates = a.cells

\* f is the DateRangeFilter of the range r
IsDateRangeFilterOf(f, r) ==
    /\ f.type = "DateRangeFilter"
    /\ f.field_name = "acquired"
    /\ f.config.gte[1] = r[1]
    /\ f.config.lte[1] = r[2]

\* C20: for non-empty lists of AOIs and date ranges build_filters returns an
\* AndFilter whose config has exactly 4 entries in the order geometry, date,
\* cloud_cover, sun_elevation; the geometry entry is a single GeometryFilter
\* for one AOI and otherwise an OrFilter with one GeometryFilter per AOI; the
\* date entry is a single DateRangeFilter for one range and otherwise an
\* OrFilter with one DateRangeFilter per range.
C20_FourEntries ==
    (bf_pc = "returned" /\ Len(bf_args.aois) >= 1 /\ Len(bf_args.date_ranges) >= 1) =>
        LET cfg == combined_filter.config
            na == Len(bf_args.aois)
            nd == Len(bf_args.date_ranges)
        IN  /\ combined_filter.type = "AndFilter"
            /\ Len(cfg) = 4
            /\ IF na = 1
               THEN IsGeometryFilterOf(cfg[1], bf_args.aois[1])
               ELSE /\ cfg[1].type = "OrFilter"
                    /\ Len(cfg[1].config) = na
                    /\ \A k \in 1..na :
                          IsGeometryFilterOf(cfg[1].config[k], bf_args.aois[k])
            /\ IF nd = 1
               THEN IsDateRangeFilterOf(cfg[2], bf_args.date_ranges[1])
               ELSE /\ cfg[2].type = "OrFilter"
                    /\ Len(cfg[2].config) = nd
                    /\ \A k \in 1..nd :
                          IsDateRangeFilterOf(cfg[2].config[k], bf_args.date_ranges[k])
            /\ cfg[3].type = "RangeFilter"
            /\ cfg[3].field_name = "cloud_cover"
            /\ cfg[3].config.lte = bf_args.max_cloud
            /\ cfg[4].type = "RangeFilter"
            /\ cfg[4].field_name = "sun_elevation"
            /\ cfg[4].config.gte = bf_args.min_sun_angle

\* C20 witness: two AOIs and one date range give an OrFilter of two
\* GeometryFilters followed by a single DateRangeFilter
C20_Witness ==
    /\ bf_pc = "returned"
    /\ Len(bf_args.aois) = 2
    /\ bf_args.aois[1] # bf_args.aois[2]
    /\ Len(bf_args.date_ranges) = 1
    /\ combined_filter.config[1].type = "OrFilter"
    /\ Len(combined_filter.config[1].config) = 2
    /\ combined_filter.config[2].type = "DateRangeFilter"

(* ------------------------------------------------------------------ *)
(* The bounding-box pre-check of calculate_intersections               *)
(* ------------------------------------------------------------------ *)
\* no test before the exact intersection
NoPreCheck(pa, pb) == TRUE

\* the complete test: the two bounding boxes overlap or touch
SymmetricPreCheck(pa, pb) ==
    /\ bounds(pa)[3] >= bounds(pb)[1]
    /\ bounds(pa)[4] >= bounds(pb)[2]
    /\ bounds(pb)[3] >= bounds(pa)[1]
    /\ bounds(pb)[4] >= bounds(pa)[2]

\* the two matrices entry by entry, the pairs being screened by Check
MatricesWith(Check(_, _), polys, props) ==
    LET n == Len(polys)
        Hit(a, b) ==
            /\ a # b
            /\ Eligible(props[a], props[b])
            /\ IF a < b THEN Check(polys[a], polys[b]) ELSE Check(polys[b], polys[a])
            /\ area(intersection(polys[a], polys[b])) > 0
    IN  [area_2d |->
            [c \in (1..n) \X (1..n) |->
                IF Hit(c[1], c[2])
                THEN area(intersection(polys[c[1]], polys[c[2]])) ELSE 0],
         sun_diff_2d |->
            [c \in (1..n) \X (1..n) |->
                IF Hit(c[1], c[2])
                THEN Abs(props[c[1]].sun_elevation - props[c[2]].sun_elevation)
                ELSE 0]]

\* C21: the one-directional bounding-box pre-check never rejects a pair whose
\* intersection has area > 0: the two matrices returned are those computed with
\* no pre-check at all, and those computed with the complete symmetric test.
C21_PreCheckHarmless ==
    ci_pc = "returned" =>
        /\ \A a, b \in 1..Len(polygons) :
              (a < b /\ area(intersection(polygons[a], polygons[b])) > 0)
                  => PreCheck(polygons[a], polygons[b])
        /\ <<area_2d, sun_diff_2d>> =
              LET m == MatricesWith(NoPreCheck, polygons, merged_properties)
              IN  <<m.area_2d, m.sun_diff_2d>>
        /\ <<area_2d, sun_diff_2d>> =
              LET m == MatricesWith(SymmetricPreCheck, polygons, merged_properties)
              IN  <<m.area_2d, m.sun_diff_2d>>

\* C21 witness: one eligible pair passes the one-directional test although its
\* boxes lie apart and gets no entry, and another truly intersects
C21_Witness ==
    /\ ci_pc = "returned"
    /\ \E a, b \in 1..Len(polygons) :
          /\ a < b
          /\ Eligible(merged_properties[a], merged_properties[b])
          /\ PreCheck(polygons[a], polygons[b])
          /\ ~SymmetricPreCheck(polygons[a], polygons[b])
          /\ area_2d[<<a, b>>] = 0
    /\ \E a, b \in 1..Len(polygons) :
          /\ a < b
          /\ Eligible(merged_properties[a], merged_properties[b])
          /\ area_2d[<<a, b>>] > 0

(* ------------------------------------------------------------------ *)
(* The acquisition-time windows of a run                               *)
(* ------------------------------------------------------------------ *)
\* seconds of a day: 00:00:00, 10:30:00 and 23:59:59
DayInstants == {0, 37800, 86399}

\* the instant t = <<day, second>> is not later than u
NotLater(t, u) == t[1] < u[1] \/ (t[1] = u[1] /\ t[2] <= u[2])

\* a scene acquired at t matches the DateRangeFilter of the request
InWindow(req, t) == NotLater(req.gte, t) /\ NotLater(t, req.lte)

\* the request posted by the call for tile c[1] and date slice c[2]
RequestOf(c) ==
    search_request(all_tiles[c[1]], date_ranges[c[2]][1], date_ranges[c[2]][2],
                   args.max_cloud, args.min_sun_angle)

\* C22: the acquisition-time windows sent for the date slices of one run
\* together cover every instant of every day from start to end inclusive: a
\* scene acquired at any time of any of these days, the last day of a slice
\* included, is matched by some search call.
C22_WholeDays ==
    (pc = "fetched" /\ Len(all_tiles) > 0) =>
        \A d \in start_date..end_date, sec \in DayInstants :
            \E n \in 1..Len(calls) : InWindow(RequestOf(calls[n]), <<d, sec>>)

(* ------------------------------------------------------------------ *)
(* The date slices of polygon and point AOIs                           *)
(* ------------------------------------------------------------------ *)
\* the tiles of the polygon AOIs come first in all_tiles, those of the
\* buffered points after them
PolygonTileCount == Len(tile_all(SelectSeq(aois, IsNotPoint)))

\* C23: in every run of main each search call for a tile that comes from a
\* polygon AOI uses a date slice of at most 30 days, and only tiles that come
\* from point AOIs are searched with slices of up to 1095 days, also when the
\* AOI file holds both points and polygons.
C23_SliceByAoiKind ==
    (pc = "dispatch" /\ in_flight # NoCall) =>
        LET c == calls[Len(calls)]
        IN  IF c[1] <= PolygonTileCount
            THEN SliceDays(date_ranges[c[2]]) <= DATE_RANGE_THRESHOLD_DAYS
            ELSE SliceDays(date_ranges[c[2]]) <= POINT_DATE_THRESHOLD_DAYS

====
